---- MODULE Spec2Model ----
(***************************************************************************)
(* Model of the Supervisor web service: the credential store               *)
(* (models/user.py), the auth service (services/auth_service.py), the      *)
(* upstream worker client (services/worker_client.py) and the session      *)
(* gateway (routes/*.py).                                                  *)
(*                                                                         *)
(* Strings are sequences of one-character strings, so that strip() and     *)
(* len() are computed.  None is 0 for ids and timestamps, <<>> for         *)
(* strings.  Each client holds its own Flask session and has at most one   *)
(* request in flight; handlers that read the store and write it later are  *)
(* split at the storage round-trip so that requests interleave there.      *)
(***************************************************************************)
EXTENDS Integers, Sequences, FiniteSets, TLC

\* ------------------------------------------------------------------ bounds
NumClients == 2
MaxUsers == 2
MaxClock == 2
NumSalts == 1
MaxPatterns == 2

Clients == 1..NumClients
None == 0
StaleId == MaxUsers + 1

\* ------------------------------------------------------------- characters
Alphabet == <<" ", "a", "b", "c", "o", "l", "d", "1", "2", "3", "4", "5", "6", "x">>

Code(ch) == CHOOSE i \in 1..Len(Alphabet) : Alphabet[i] = ch

\* str.strip(): drop leading and trailing whitespace
RECURSIVE lstrip(_)
lstrip(s) == IF s # <<>> /\ Head(s) = " " THEN lstrip(Tail(s)) ELSE s

RECURSIVE rstrip(_)
rstrip(s) == IF s # <<>> /\ s[Len(s)] = " " THEN rstrip(SubSeq(s, 1, Len(s) - 1)) ELSE s

strip(s) == rstrip(lstrip(s))

\* ----------------------------------------------------------- input values
U_ab == <<"a", "b">>
U_abc == <<"a", "b", "c">>
U_abc_padded == <<" ", "a", "b", "c", " ">>
U_bob == <<"b", "o", "b">>
U_old == <<"o", "l", "d">>

P_short == <<"1", "2", "3", "4", "5">>
P_good == <<"1", "2", "3", "4", "5", "6">>
P_other == <<"x", "2", "3", "4", "5", "6">>

EmptyProfile == <<>>
ProfileAge30 == [k \in {"age"} |-> 30]
ProfileBob == [k \in {"age", "goal"} |-> IF k = "age" THEN 25 ELSE "sleep"]
ProfileGoal == [k \in {"goal"} |-> "rest"]

\* request.get_json(): no body (None), or an object with the keys the
\* handlers read; has_profile tells whether the 'profile' key is there
NoBody == [present |-> FALSE, username |-> <<>>, password |-> <<>>, profile |-> EmptyProfile,
           has_profile |-> FALSE, sleep_sessions |-> <<>>]

Credentials(u, p) ==
    [present |-> TRUE, username |-> u, password |-> p, profile |-> EmptyProfile,
     has_profile |-> FALSE, sleep_sessions |-> <<>>]

ProfileBody(pr) == [Credentials(<<>>, <<>>) EXCEPT !.profile = pr, !.has_profile = TRUE]

RegisterBodies ==
    {NoBody, Credentials(<<>>, P_good), Credentials(U_abc, <<>>), Credentials(U_ab, P_good),
     Credentials(U_abc, P_short), Credentials(U_abc, P_good),
     Credentials(U_abc_padded, P_good),
     [Credentials(U_bob, P_other) EXCEPT !.profile = ProfileBob, !.has_profile = TRUE]}

LoginBodies ==
    {NoBody, Credentials(<<>>, P_good), Credentials(U_abc, <<>>), Credentials(U_abc, P_good),
     Credentials(U_abc, P_other), Credentials(U_abc_padded, P_good),
     Credentials(U_bob, P_other), Credentials(U_bob, P_good)}

\* ------------------------------------------------------------------- User
NoHash == [salt |-> 0, digest |-> <<>>]

NoUser == [user_id |-> None, username |-> <<>>, password_hash |-> NoHash,
           profile |-> EmptyProfile, created_at |-> None, last_login |-> None]

\* werkzeug generate_password_hash: a salted one-way digest of the password
Digest(salt, password) ==
    [i \in 1..Len(password) |-> (Code(password[i]) * 7 + salt * i) % 101]

generate_password_hash(password, salt) == [salt |-> salt, digest |-> Digest(salt, password)]

\* werkzeug check_password_hash: recompute with the stored salt and compare
check_password_hash(pwhash, password) == pwhash.digest = Digest(pwhash.salt, password)

\* User.__init__
NewUser(username, password, salt, profile) ==
    [user_id |-> None, username |-> username,
     password_hash |-> IF password # <<>> THEN generate_password_hash(password, salt) ELSE NoHash,
     profile |-> profile, created_at |-> None, last_login |-> None]

\* User.check_password
check_password(user, password) ==
    IF user.password_hash = NoHash THEN FALSE
    ELSE check_password_hash(user.password_hash, password)

\* User.from_dict leaving user_id unset
from_dict_without_id(doc) ==
    [user_id |-> None, username |-> doc.username, password_hash |-> doc.password_hash,
     profile |-> doc.profile, created_at |-> doc.created_at, last_login |-> doc.last_login]

\* User.from_dict: _id -> user_id
from_dict(doc) ==
    [user_id |-> doc._id, username |-> doc.username, password_hash |-> doc.password_hash,
     profile |-> doc.profile, created_at |-> doc.created_at, last_login |-> doc.last_login]


\* User.to_dict: the public view of a user (no password_hash)
to_dict(user) ==
    [username |-> user.username, user_id |-> user.user_id, profile |-> user.profile,
     created_at |-> user.created_at, last_login |-> user.last_login]

\* ------------------------------------------------------- MongoUserStorage
\* whether MongoDB answers; while it does not, every call on the collection
\* raises, and each method of MongoUserStorage catches that and returns its
\* failure value
VARIABLE db_up

\* The collection is a set of documents; create_index('username', unique=True)
\* makes every write that would give two documents one username raise
\* DuplicateKeyError.
DuplicateKey(S, doc) == \E d \in S : d.username = doc.username /\ d._id # doc._id

\* collection.insert_one without the unique index
insert_one_unchecked(S, doc) == [raised |-> FALSE, store |-> S \cup {doc}]

\* collection.insert_one
insert_one(S, doc) ==
    IF DuplicateKey(S, doc) THEN [raised |-> TRUE, store |-> S]
    ELSE [raised |-> FALSE, store |-> S \cup {doc}]

\* collection.replace_one(..., upsert=True)
replace_one(S, doc) ==
    IF DuplicateKey(S, doc) THEN [raised |-> TRUE, store |-> S]
    ELSE [raised |-> FALSE, store |-> {d \in S : d._id # doc._id} \cup {doc}]

\* MongoUserStorage.save_user; oid is the ObjectId the server would assign,
\* clock is datetime.now()
save_user(S, user, oid, clock) ==
    IF ~db_up THEN [ok |-> FALSE, store |-> S, user |-> user]
    ELSE
    LET created == IF user.created_at = None THEN clock ELSE user.created_at
        doc == [_id |-> IF user.user_id # None THEN user.user_id ELSE oid,
                username |-> user.username, password_hash |-> user.password_hash,
                profile |-> user.profile, created_at |-> created,
                last_login |-> user.last_login]
        w == IF user.user_id # None THEN replace_one(S, doc) ELSE insert_one(S, doc)
    IN  [ok |-> ~w.raised, store |-> w.store,
         user |-> [user EXCEPT !.created_at = created,
                               !.user_id = IF w.raised THEN user.user_id ELSE doc._id]]

\* MongoUserStorage.get_user_by_username
get_user_by_username(S, username) ==
    IF ~db_up THEN NoUser
    ELSE IF \E d \in S : d.username = username
    THEN from_dict(CHOOSE d \in S : d.username = username)
    ELSE NoUser

\* MongoUserStorage.get_user_by_id
get_user_by_id(S, user_id) ==
    IF user_id = None \/ ~db_up THEN NoUser
    ELSE IF \E d \in S : d._id = user_id
         THEN from_dict(CHOOSE d \in S : d._id = user_id)
         ELSE NoUser

\* MongoUserStorage.user_exists answering False whatever is stored
user_exists_never(S, username) == Cardinality({d \in S : d.username = username}) > Cardinality(S)

\* MongoUserStorage.user_exists
user_exists(S, username) == db_up /\ Cardinality({d \in S : d.username = username}) > 0

\* an update whose $set also stamps created_at
update_user_restamp(S, user) ==
    IF user.user_id = None \/ ~db_up THEN [ok |-> FALSE, store |-> S]
    ELSE LET matched == {d \in S : d._id = user.user_id}
             set(d) == [d EXCEPT !.username = user.username,
                                 !.password_hash = user.password_hash,
                                 !.profile = user.profile,
                                 !.last_login = user.last_login,
                                 !.created_at = user.last_login]
         IN  [ok |-> \E d \in matched : set(d) # d,
              store |-> (S \ matched) \cup {set(d) : d \in matched}]

\* MongoUserStorage.update_user: $set of username, password_hash, profile and
\* last_login on the document with that _id; True iff a document was modified
update_user(S, user) ==
    IF user.user_id = None \/ ~db_up THEN [ok |-> FALSE, store |-> S]
    ELSE LET matched == {d \in S : d._id = user.user_id}
             set(d) == [d EXCEPT !.username = user.username,
                                 !.password_hash = user.password_hash,
                                 !.profile = user.profile,
                                 !.last_login = user.last_login]
         IN  IF \E d \in matched : DuplicateKey(S, set(d))
             THEN [ok |-> FALSE, store |-> S]
             ELSE [ok |-> \E d \in matched : set(d) # d,
                   store |-> (S \ matched) \cup {set(d) : d \in matched}]

\* ------------------------------------------------------------ AuthService
\* a pre-check whose password bound is one character short
register_user_check_lenient(S, username, password) ==
    IF username = <<>> \/ password = <<>> THEN "Username and password are required"
    ELSE IF Len(username) < 3 THEN "Username must be at least 3 characters"
    ELSE IF Len(password) < 5 THEN "Password must be at least 6 characters"
    ELSE IF user_exists(S, username) THEN "Username already exists"
    ELSE ""

\* AuthService.register_user, up to and including the user_exists pre-check:
\* the error message, or "" to go on to save
register_user_check(S, username, password) ==
    IF username = <<>> \/ password = <<>> THEN "Username and password are required"
    ELSE IF Len(username) < 3 THEN "Username must be at least 3 characters"
    ELSE IF Len(password) < 6 THEN "Password must be at least 6 characters"
    ELSE IF user_exists(S, username) THEN "Username already exists"
    ELSE ""

\* AuthService.register_user, the try block: build the User and save it
register_user_save(S, username, password, salt, profile, oid, clock) ==
    LET r == save_user(S, NewUser(username, password, salt, profile), oid, clock)
    IN  [user |-> IF r.ok THEN r.user ELSE NoUser,
         error |-> IF r.ok THEN "" ELSE "Failed to save user",
         store |-> r.store]

\* AuthService.authenticate_user reporting an unknown username as such
authenticate_user_lookup_leaky(S, username, password) ==
    LET user == get_user_by_username(S, username)
    IN  IF username = <<>> \/ password = <<>>
        THEN [user |-> NoUser, error |-> "Username and password are required"]
        ELSE IF user = NoUser
        THEN [user |-> NoUser, error |-> "User not found"]
        ELSE IF ~check_password(user, password)
        THEN [user |-> NoUser, error |-> "Invalid username or password"]
        ELSE [user |-> user, error |-> ""]

\* AuthService.authenticate_user without the check for missing fields
authenticate_user_lookup_unchecked(S, username, password) ==
    LET user == get_user_by_username(S, username)
    IN  IF user = NoUser
        THEN [user |-> NoUser, error |-> "Invalid username or password"]
        ELSE IF ~check_password(user, password)
        THEN [user |-> NoUser, error |-> "Invalid username or password"]
        ELSE [user |-> user, error |-> ""]

\* AuthService.authenticate_user, up to the password check
authenticate_user_lookup(S, username, password) ==
    LET user == get_user_by_username(S, username)
    IN  IF username = <<>> \/ password = <<>>
        THEN [user |-> NoUser, error |-> "Username and password are required"]
        ELSE IF user = NoUser
        THEN [user |-> NoUser, error |-> "Invalid username or password"]
        ELSE IF ~check_password(user, password)
        THEN [user |-> NoUser, error |-> "Invalid username or password"]
        ELSE [user |-> user, error |-> ""]

\* a login that gives no user when the write of last_login did not succeed
authenticate_user_update_strict(S, user, clock) ==
    LET u == [user EXCEPT !.last_login = clock]
        r == update_user(S, u)
    IN  IF r.ok THEN [user |-> u, store |-> r.store] ELSE [user |-> NoUser, store |-> S]

\* AuthService.authenticate_user, after the password check: stamp last_login
\* and write the user back; the result of update_user is ignored
authenticate_user_update(S, user, clock) ==
    LET u == [user EXCEPT !.last_login = clock]
    IN  [user |-> u, store |-> update_user(S, u).store]


\* ------------------------------------------------------------ JSON values
\* What response.json() parses: null (Python None), booleans, numbers, strings
\* (sequences of characters), lists and objects (functions from keys)
Null == [t |-> "null"]
Bool(b) == [t |-> "bool", v |-> b]
Num(n) == [t |-> "num", v |-> n]
Str(s) == [t |-> "str", v |-> s]
List(q) == [t |-> "list", v |-> q]
Obj(f) == [t |-> "obj", v |-> f]

EmptyList == List(<<>>)
EmptyObj == Obj(<<>>)

\* a key that the object under construction does not have
Absent == [t |-> "absent"]

\* the object with one key, or with none when the value is Absent
Field(key, val) == IF val.t = "absent" THEN <<>> ELSE [k \in {key} |-> val]

\* the keys of g next to those of f
Fields(f, g) == [k \in (DOMAIN f) \cup (DOMAIN g) |-> IF k \in DOMAIN g THEN g[k] ELSE f[k]]

\* isinstance(j, dict)
IsObj(j) == j.t = "obj"

\* dict.get(key, default)
get(j, key, default) == IF key \in DOMAIN j.v THEN j.v[key] ELSE default

\* bool(j): None, 0, '', [] and {} are false
truthy(j) ==
    CASE j.t = "null" -> FALSE
      [] j.t = "bool" -> j.v
      [] j.t = "num" -> j.v # 0
      [] j.t = "str" -> j.v # <<>>
      [] j.t = "list" -> j.v # <<>>
      [] j.t = "obj" -> DOMAIN j.v # {}

\* str.lower()
Uppers == <<"A", "B", "E", "G", "I", "L", "M", "N", "O", "P", "R", "S", "U", "W">>
Lowers == <<"a", "b", "e", "g", "i", "l", "m", "n", "o", "p", "r", "s", "u", "w">>

lower_char(ch) ==
    IF \E i \in 1..Len(Uppers) : Uppers[i] = ch
    THEN Lowers[CHOOSE i \in 1..Len(Uppers) : Uppers[i] = ch]
    ELSE ch

lower(s) == [i \in 1..Len(s) |-> lower_char(s[i])]

\* sub in s
contains(sub, s) ==
    \E i \in 0..(Len(s) - Len(sub)) : SubSeq(s, i + 1, i + Len(sub)) = sub

K_issue == <<"i", "s", "s", "u", "e">>
K_problem == <<"p", "r", "o", "b", "l", "e", "m">>
K_warning == <<"w", "a", "r", "n", "i", "n", "g">>

\* ----------------------------------------------------------- WorkerClient
\* What one HTTP call to the worker ends in: no answer within
\* Config.WORKER_AGENT_TIMEOUT, no connection, a non-2xx status, a 2xx body
\* that is not JSON, or a 2xx body that is JSON
WorkerOutcomes == {"timeout", "connection_error", "http_error", "invalid_json", "ok"}

\* a body that response.json() cannot parse
Text(s) == [t |-> "text", v |-> s]

\* the worker's answer to one call: how it ended and the body it carried
Reply(kind, body) == [kind |-> kind, body |-> body]

NoReply == Reply("", Absent)

\* None
NoneResult == Null

\* an empty object where the call gave no parsed body
make_request_empty(reply) == IF reply.kind = "ok" THEN reply.body ELSE EmptyObj

\* WorkerClient._make_request: the parsed body of a 2xx answer; every
\* exception (Timeout, ConnectionError, HTTPError, any other) is logged and
\* swallowed into None
make_request(reply) == IF reply.kind = "ok" THEN reply.body ELSE NoneResult

\* a call that returned value, or raised
Returned(value) == [raised |-> FALSE, value |-> value]
Raised == [raised |-> TRUE, value |-> NoneResult]

NoTask == [called |-> FALSE, endpoint |-> "", user_id |-> None,
           profile |-> EmptyProfile, sleep_sessions |-> <<>>]

\* a payload that leaves the caller's session records out
send_task_no_sessions(user_id, profile, sleep_sessions) ==
    [called |-> TRUE, endpoint |-> "/task", user_id |-> user_id,
     profile |-> profile, sleep_sessions |-> <<>>]

\* WorkerClient.send_task: the payload posted to /task
send_task(user_id, profile, sleep_sessions) ==
    [called |-> TRUE, endpoint |-> "/task", user_id |-> user_id,
     profile |-> profile, sleep_sessions |-> sleep_sessions]

S_completed == <<"c", "o", "m", "p", "l", "e", "t", "e", "d">>
S_error == <<"e", "r", "r", "o", "r">>

\* WorkerClient.send_task, after _make_request: `result and result.get(...)`
\* reads the status of a truthy result, which raises AttributeError when the
\* result is not an object
send_task_result(reply) ==
    LET result == make_request(reply)
    IN  IF truthy(result) /\ ~IsObj(result) THEN Raised ELSE Returned(result)

\* WorkerClient.get_memory: GET /memory?user_id=
get_memory(user_id) ==
    [called |-> TRUE, endpoint |-> "/memory", user_id |-> user_id,
     profile |-> EmptyProfile, sleep_sessions |-> <<>>]

\* taking a falsy document for no document
get_memory_result_falsy(reply) ==
    IF truthy(make_request(reply)) THEN [raised |-> FALSE, value |-> make_request(reply)]
    ELSE [raised |-> FALSE, value |-> NoneResult]

\* WorkerClient.get_memory: what _make_request returns
get_memory_result(reply) == Returned(make_request(reply))

\* `issues.append(x)`: only a list has append
append(issues, x) ==
    IF issues.t = "list" THEN Returned(List(Append(issues.v, x))) ELSE Raised

\* taking every record pattern for an issue
pattern_step_unfiltered(issues, pattern) ==
    IF IsObj(pattern) THEN append(issues, get(pattern, "description", Str(<<>>)))
    ELSE [raised |-> FALSE, value |-> issues]

\* one turn of `for pattern in patterns`, issues being the list so far
pattern_step(issues, pattern) ==
    IF IsObj(pattern)
    THEN LET pattern_type == get(pattern, "type", Str(<<>>))
         IN  IF pattern_type.t = "str" /\ pattern_type.v = K_issue
             THEN append(issues, get(pattern, "description", Str(<<>>)))
             ELSE IF pattern_type.t # "str"
             THEN Raised   \* pattern_type.lower(): AttributeError
             ELSE IF \/ contains(K_problem, lower(pattern_type.v))
                     \/ contains(K_warning, lower(pattern_type.v))
             THEN append(issues, get(pattern, "description", Str(<<>>)))
             ELSE Returned(issues)
    ELSE IF pattern.t = "str"
    THEN IF contains(K_issue, lower(pattern.v)) \/ contains(K_problem, lower(pattern.v))
         THEN append(issues, pattern)
         ELSE Returned(issues)
    ELSE Returned(issues)

\* the loop over a list of patterns: it stops where a turn raises, and
\* `at` keeps the issues appended until then
RECURSIVE pattern_loop(_, _)
pattern_loop(issues, patterns) ==
    IF patterns = <<>> THEN [raised |-> FALSE, value |-> issues, at |-> issues]
    ELSE LET turn == pattern_step(issues, Head(patterns))
         IN  IF turn.raised THEN [raised |-> TRUE, value |-> NoneResult, at |-> issues]
             ELSE pattern_loop(turn.value, Tail(patterns))

\* `for pattern in patterns`: a list yields its elements, a string its
\* characters; None and numbers are not iterable (TypeError)
iterate(issues, patterns) ==
    IF patterns.t = "list" THEN pattern_loop(issues, patterns.v)
    ELSE IF patterns.t = "str"
    THEN pattern_loop(issues, [i \in 1..Len(patterns.v) |-> Str(<<patterns.v[i]>>)])
    ELSE [raised |-> TRUE, value |-> NoneResult, at |-> issues]

\* falling back to trends whenever the top-level value is falsy
resolve_falsy(ltm, key, fallback) ==
    LET top == get(ltm, key, Null)
        trends == get(ltm, "trends", EmptyObj)
    IN  IF truthy(top) THEN [raised |-> FALSE, value |-> top]
        ELSE IF ~IsObj(trends) THEN [raised |-> TRUE, value |-> NoneResult]
        ELSE [raised |-> FALSE, value |-> get(trends, fallback, Null)]

\* ltm.get(key), and trends.get(fallback) when that is None
resolve(ltm, key, fallback) ==
    LET top == get(ltm, key, Null)
        trends == get(ltm, "trends", EmptyObj)
    IN  IF top.t # "null" THEN Returned(top)
        ELSE IF ~IsObj(trends) THEN Raised   \* trends.get: AttributeError
        ELSE Returned(get(trends, fallback, Null))

\* the issues of WorkerClient.get_recommendations: ltm['issues'] when it is
\* truthy, else what the loop appends to it (to a new list when the key is
\* missing)
resolve_issues(ltm) ==
    LET issues == get(ltm, "issues", EmptyList)
    IN  IF truthy(issues) THEN [raised |-> FALSE, value |-> issues, at |-> issues]
        ELSE iterate(issues, get(ltm, "patterns", EmptyList))

\* the object ltm after the call: the list under 'issues' is the one the
\* loop appended to
ltm_after(ltm, issues) ==
    IF "issues" \in DOMAIN ltm.v THEN Obj([ltm.v EXCEPT !["issues"] = issues.at]) ELSE ltm

\* WorkerClient.get_recommendations, given what get_memory returned: the
\* summary it returns (None for a falsy memory) or that it raised, and the
\* memory object as the call leaves it
get_recommendations(memory) ==
    IF ~truthy(memory) THEN [raised |-> FALSE, value |-> NoneResult, memory |-> memory]
    ELSE IF ~IsObj(memory) THEN [raised |-> TRUE, value |-> NoneResult, memory |-> memory]
    ELSE LET ltm == get(memory, "ltm", EmptyObj)
         IN  IF ~IsObj(ltm) THEN [raised |-> TRUE, value |-> NoneResult, memory |-> memory]
             ELSE LET recommendations == get(ltm, "recommendations", EmptyObj)
                      sleep_score == resolve(ltm, "sleep_score", "avg_sleep_score")
                      confidence == resolve(ltm, "confidence", "confidence")
                      personalized_tips == get(ltm, "personalized_tips", EmptyList)
                      issues == resolve_issues(ltm)
                      after == IF "ltm" \in DOMAIN memory.v
                               THEN Obj([memory.v EXCEPT !["ltm"] = ltm_after(ltm, issues)])
                               ELSE memory
                  IN  IF sleep_score.raised \/ confidence.raised
                      THEN [raised |-> TRUE, value |-> NoneResult, memory |-> memory]
                      ELSE IF issues.raised
                      THEN [raised |-> TRUE, value |-> NoneResult, memory |-> after]
                      ELSE [raised |-> FALSE,
                            value |-> Obj([sleep_score |-> sleep_score.value,
                                           confidence |-> confidence.value,
                                           issues |-> issues.value,
                                           recommendations |-> recommendations,
                                           personalized_tips |-> personalized_tips]),
                            memory |-> after]

\* --------------------------------------------------- what the worker sends
S_failed == <<"b", "a", "d">>
S_analysis_failed ==
    <<"A", "n", "a", "l", "y", "s", "i", "s", " ", "f", "a", "i", "l", "e", "d">>

D_late == <<"l", "a", "t", "e">>
D_lie == <<"l", "i", "e">>
D_nap == <<"n", "a", "p">>

\* patterns of the long-term memory: records with a type and a description,
\* plain strings, and malformed ones
PatIssue == Obj([type |-> Str(K_issue), description |-> Str(D_late)])
PatInfo == Obj([type |-> Str(<<"i", "n", "f", "o">>), description |-> Str(D_lie)])
PatProblem == Obj([type |-> Str(<<"P", "r", "o", "b", "l", "e", "m", "s">>),
                   description |-> Str(D_nap)])
PatWarning == Obj([type |-> Str(<<"W", "A", "R", "N", "I", "N", "G">>)])
PatIssueCapital == Obj([type |-> Str(<<"I", "s", "s", "u", "e">>), description |-> Str(D_nap)])
PatNoType == Obj([description |-> Str(D_lie)])
PatNumberType == Obj([type |-> Num(5), description |-> Str(D_lie)])
PatIssueString == Str(<<"a", "n", " ", "I", "S", "S", "U", "E">>)
PatWarningString == Str(K_warning)
PatNumber == Num(7)

\* the result of a completed task with every top-level field
FullResult ==
    Obj([sleep_score |-> Num(85), confidence |-> Num(90),
         issues |-> List(<<Str(D_late)>>),
         recommendations |-> Obj([bedtime |-> Num(22)]),
         personalized_tips |-> List(<<Str(D_nap)>>)])

\* a result that has the score and the issues under trends and patterns only
TrendsResult ==
    Obj([trends |-> Obj([avg_sleep_score |-> Num(72), confidence |-> Num(80)]),
         patterns |-> List(<<PatIssue, PatInfo>>)])

\* the 'result' of a completed envelope: missing, null, not an object, or
\* an object
ResultDocs == {Absent, Null, EmptyList, EmptyObj, FullResult, TrendsResult}

\* {"status": "completed", "result": ...}
Completed(result) == Obj(Fields([status |-> Str(S_completed)], Field("result", result)))

\* {"status": "error", "error": ...}
ErrorEnvelope(message) == Obj(Fields([status |-> Str(S_error)], Field("error", message)))

\* the calls that end without a parsed 2xx body; a non-2xx answer carries
\* an error body that parses, or raw text
Failures ==
    {Reply("timeout", Absent), Reply("connection_error", Absent),
     Reply("http_error", Obj([error |-> Str(S_failed)])),
     Reply("http_error", Text(S_failed)),
     Reply("invalid_json", Text(S_failed))}

\* the answers to POST /task
TaskReplies ==
    Failures \cup
    {Reply("ok", body) :
        body \in {Null, EmptyList, Num(1), EmptyObj,
                  ErrorEnvelope(Str(S_failed)), ErrorEnvelope(Absent)}
                 \cup {Completed(result) : result \in ResultDocs}}

\* a timeout, an error envelope and a completed task
BasicReplies ==
    {Reply("timeout", Absent), Reply("ok", ErrorEnvelope(Str(S_failed))),
     Reply("ok", Completed(FullResult))}

\* a memory document of the worker
MemoryExample ==
    Obj([stm |-> Obj([sessions |-> List(<<Str(D_nap)>>), count |-> Num(1)]),
         ltm |-> TrendsResult])

\* the answers to GET /memory
MemoryReplies ==
    Failures \cup {Reply("ok", body) : body \in {Null, EmptyObj, EmptyList, MemoryExample}}

BasicMemoryReplies == {Reply("timeout", Absent), Reply("ok", MemoryExample)}

\* the long-term memory objects given to WorkerClient.get_recommendations
ScoreChoices == {Absent, Null, Num(0), Num(85)}
ConfidenceChoices == {Absent, Num(0), Num(90)}
TrendsChoices ==
    {Absent, Null, Str(D_nap), EmptyObj,
     Obj([avg_sleep_score |-> Num(72), confidence |-> Num(80)])}
ExtrasChoices ==
    {<<>>, [recommendations |-> Obj([bedtime |-> Num(22)]),
            personalized_tips |-> List(<<Str(D_nap)>>)]}
IssuesChoices == {Absent, Null, EmptyList, List(<<Str(D_late)>>)}

Patterns ==
    {PatIssue, PatInfo, PatProblem, PatWarning, PatIssueCapital, PatNoType,
     PatNumberType, PatIssueString, PatWarningString, PatNumber}

PatternLists == UNION {[1..n -> Patterns] : n \in 0..MaxPatterns}

PatternsChoices == {Absent, Null, Num(3)} \cup {List(q) : q \in PatternLists}

ScoreLtms ==
    {Obj(Fields(Fields(Field("sleep_score", s), Field("confidence", cf)),
                Fields(Field("trends", tr), x))) :
        s \in ScoreChoices, cf \in ConfidenceChoices, tr \in TrendsChoices,
        x \in ExtrasChoices}

IssueLtms ==
    {Obj(Fields(Field("issues", i), Field("patterns", p))) :
        i \in IssuesChoices, p \in PatternsChoices}

MixedLtms ==
    {TrendsResult,
     Obj(Fields(TrendsResult.v, [issues |-> EmptyList])),
     Obj([trends |-> Null, issues |-> EmptyList, patterns |-> List(<<PatIssue>>)])}

\* the memory documents: empty, without ltm, with an ltm that is null or
\* not an object, and with each of the objects above
NormalizerMemories ==
    {EmptyObj, Obj([stm |-> EmptyObj]), Obj([ltm |-> Null]), Obj([ltm |-> Str(D_nap)])}
    \cup {Obj([ltm |-> ltm]) : ltm \in ScoreLtms \cup IssueLtms \cup MixedLtms}

\* the answers to the GET /memory of WorkerClient.get_recommendations
NormalizerReplies ==
    Failures \cup {Reply("ok", body) : body \in {Null} \cup NormalizerMemories}

\* ------------------------------------------------------------------ state
VARIABLES
    store,      \* the users collection: a set of documents
    nextId,     \* the next ObjectId the database assigns
    now,        \* datetime.now()
    session,    \* session[c]: the Flask session of client c
    pc,         \* pc[c]: where the request of client c stands
    local,      \* local[c]: the local variables of the request in flight
    last,       \* the latest request: received (status 0), or answered
    creds       \* the credentials of every successful registration

vars == <<store, nextId, now, session, pc, local, last, creds, db_up>>

EmptySession == [user_id |-> None, username |-> <<>>]
StaleSession == [user_id |-> StaleId, username |-> U_old]

NoLocal == [body |-> NoBody, param |-> None, user |-> NoUser, sess |-> EmptySession]

NoRequest == [client |-> 0, op |-> "", body |-> NoBody, param |-> None,
              sess |-> EmptySession, status |-> 0, code |-> "", error |-> "",
              user |-> to_dict(NoUser), available |-> FALSE, task |-> NoTask,
              reply |-> NoReply, result |-> Returned(NoneResult), data |-> Absent,
              memory |-> Absent]

\* jsonify(...), status: the response of client c's request
Response(c, op, body, param, sess, status, code, error, user, task) ==
    [client |-> c, op |-> op, body |-> body, param |-> param, sess |-> sess,
     status |-> status, code |-> code, error |-> error, user |-> to_dict(user),
     available |-> FALSE, task |-> task, reply |-> NoReply,
     result |-> Returned(NoneResult), data |-> Absent, memory |-> Absent]

\* a request of client c that is received and not answered yet
Received(c, op) == [NoRequest EXCEPT !.client = c, !.op = op]

Tick == IF now < MaxClock THEN now + 1 ELSE now

Salts == 1..NumSalts

\* An empty collection.  The Flask session lives in a cookie the client keeps
\* (Config.PERMANENT_SESSION_LIFETIME), so a client may arrive with the
\* session of a user whose record is not in the collection (any more).
Init ==
    /\ store = {}
    /\ nextId = 1
    /\ now = 1
    /\ session \in [Clients -> {EmptySession, StaleSession}]
    /\ pc = [c \in Clients |-> "idle"]
    /\ local = [c \in Clients |-> NoLocal]
    /\ last = NoRequest
    /\ creds = {}
    /\ db_up = TRUE

\* setting the username only
set_session_without_id(c, user) ==
    [session EXCEPT ![c] = [user_id |-> None, username |-> user.username]]

\* setting the user_id only
set_session_id_only(c, user) ==
    [session EXCEPT ![c] = [user_id |-> user.user_id, username |-> <<>>]]

\* session['user_id'] = user.user_id; session['username'] = user.username
set_session(c, user) ==
    [session EXCEPT ![c] = [user_id |-> user.user_id, username |-> user.username]]

\* dropping the username only
clear_session_keeps_id(c) == [session EXCEPT ![c].username = <<>>]

\* session.clear()
clear_session(c) == [session EXCEPT ![c] = EmptySession]

\* --------------------------------------------------------- routes/auth.py
\* POST /register, up to the user_exists pre-check of register_user
RegisterBegin(c, body) ==
    /\ pc[c] = "idle"
    /\ LET username == strip(body.username)
           error == register_user_check(store, username, body.password)
       IN  IF ~body.present
           THEN /\ last' = Response(c, "register", body, None, session[c], 400,
                                    "INVALID_REQUEST", "Invalid request", NoUser, NoTask)
                /\ UNCHANGED <<pc, local>>
           ELSE IF error # ""
           THEN /\ last' = Response(c, "register", body, None, session[c], 400,
                                    "REGISTRATION_ERROR", error, NoUser, NoTask)
                /\ UNCHANGED <<pc, local>>
           ELSE /\ pc' = [pc EXCEPT ![c] = "register_save"]
                /\ local' = [local EXCEPT ![c] = [body |-> body, param |-> None,
                                                  user |-> NoUser, sess |-> session[c]]]
                /\ last' = Received(c, "register")
    /\ UNCHANGED <<store, nextId, now, session, creds, db_up>>

\* POST /register, from save_user on: insert, set the session, answer 201
RegisterSave(c) ==
    /\ pc[c] = "register_save"
    /\ nextId <= MaxUsers \/ user_exists(store, strip(local[c].body.username)) \/ ~db_up
    /\ \E salt \in Salts :
        LET body == local[c].body
            username == strip(body.username)
            r == register_user_save(store, username, body.password, salt,
                                    body.profile, nextId, now)
        IN  IF r.error # ""
            THEN /\ last' = Response(c, "register", body, None, session[c], 400,
                                     "REGISTRATION_ERROR", r.error, NoUser, NoTask)
                 /\ UNCHANGED <<store, nextId, now, session, creds, db_up>>
            ELSE /\ store' = r.store
                 /\ nextId' = nextId + 1
                 /\ now' = Tick
                 /\ session' = set_session(c, r.user)
                 /\ creds' = creds \cup {[username |-> username, password |-> body.password,
                                          user_id |-> r.user.user_id]}
                 /\ last' = Response(c, "register", body, None, session[c], 201,
                                     "", "", r.user, NoTask)
                 /\ UNCHANGED db_up
    /\ pc' = [pc EXCEPT ![c] = "idle"]
    /\ local' = [local EXCEPT ![c] = NoLocal]

\* a login that drops the session when it fails
LoginBegin_clears(c, body) ==
    /\ pc[c] = "idle"
    /\ LET username == strip(body.username)
           r == authenticate_user_lookup(store, username, body.password)
       IN  IF ~body.present
           THEN /\ last' = Response(c, "login", body, None, session[c], 400,
                                    "INVALID_REQUEST", "Invalid request", NoUser, NoTask)
                /\ session' = clear_session(c)
                /\ UNCHANGED <<pc, local>>
           ELSE IF r.error # ""
           THEN /\ last' = Response(c, "login", body, None, session[c], 401,
                                    "AUTHENTICATION_ERROR", r.error, NoUser, NoTask)
                /\ session' = clear_session(c)
                /\ UNCHANGED <<pc, local>>
           ELSE /\ pc' = [pc EXCEPT ![c] = "login_update"]
                /\ local' = [local EXCEPT ![c] = [body |-> body, param |-> None,
                                                  user |-> r.user, sess |-> session[c]]]
                /\ last' = Received(c, "login")
                /\ UNCHANGED session
    /\ UNCHANGED <<store, nextId, now, creds, db_up>>

\* POST /login, up to the password check of authenticate_user
LoginBegin(c, body) ==
    /\ pc[c] = "idle"
    /\ LET username == strip(body.username)
           r == authenticate_user_lookup(store, username, body.password)
       IN  IF ~body.present
           THEN /\ last' = Response(c, "login", body, None, session[c], 400,
                                    "INVALID_REQUEST", "Invalid request", NoUser, NoTask)
                /\ UNCHANGED <<pc, local>>
           ELSE IF r.error # ""
           THEN /\ last' = Response(c, "login", body, None, session[c], 401,
                                    "AUTHENTICATION_ERROR", r.error, NoUser, NoTask)
                /\ UNCHANGED <<pc, local>>
           ELSE /\ pc' = [pc EXCEPT ![c] = "login_update"]
                /\ local' = [local EXCEPT ![c] = [body |-> body, param |-> None,
                                                  user |-> r.user, sess |-> session[c]]]
                /\ last' = Received(c, "login")
    /\ UNCHANGED <<store, nextId, now, session, creds, db_up>>

\* POST /login, from the last_login update on: write back, set the session
LoginFinish(c) ==
    /\ pc[c] = "login_update"
    /\ LET r == authenticate_user_update(store, local[c].user, now)
       IN  /\ store' = r.store
           /\ now' = Tick
           /\ session' = set_session(c, r.user)
           /\ last' = Response(c, "login", local[c].body, None, session[c], 200,
                               "", "", r.user, NoTask)
    /\ pc' = [pc EXCEPT ![c] = "idle"]
    /\ local' = [local EXCEPT ![c] = NoLocal]
    /\ UNCHANGED <<nextId, creds, db_up>>

\* POST /logout
Logout(c) ==
    /\ pc[c] = "idle"
    /\ session' = clear_session(c)
    /\ last' = Response(c, "logout", NoBody, None, session[c], 200, "", "", NoUser, NoTask)
    /\ UNCHANGED <<store, nextId, now, pc, local, creds, db_up>>

\* GET /current-user
CurrentUser(c) ==
    /\ pc[c] = "idle"
    /\ LET user_id == session[c].user_id
           user == get_user_by_id(store, user_id)
       IN  IF user_id = None
           THEN /\ last' = Response(c, "current_user", NoBody, None, session[c], 401,
                                    "NOT_AUTHENTICATED", "Not authenticated", NoUser, NoTask)
                /\ UNCHANGED session
           ELSE IF user = NoUser
           THEN /\ session' = clear_session(c)
                /\ last' = Response(c, "current_user", NoBody, None, session[c], 404,
                                    "USER_NOT_FOUND", "User not found", NoUser, NoTask)
           ELSE /\ last' = Response(c, "current_user", NoBody, None, session[c], 200,
                                    "", "", user, NoTask)
                /\ UNCHANGED session
    /\ UNCHANGED <<store, nextId, now, pc, local, creds, db_up>>


\* ---------------------------------------------------------- require_auth
\* require_auth without session.clear() for a user that is not found
require_auth_keeps_session(S, sess) ==
    LET user == get_user_by_id(S, sess.user_id)
    IN  IF sess.user_id = None
        THEN [user |-> NoUser, clear |-> FALSE, status |-> 401,
              code |-> "NOT_AUTHENTICATED", error |-> "Not authenticated"]
        ELSE IF user = NoUser
        THEN [user |-> NoUser, clear |-> FALSE, status |-> 404,
              code |-> "USER_NOT_FOUND", error |-> "User not found"]
        ELSE [user |-> user, clear |-> FALSE, status |-> 0, code |-> "", error |-> ""]

\* require_auth without the test for a session that holds no user_id
require_auth_no_session_check(S, sess) ==
    LET user == get_user_by_id(S, sess.user_id)
    IN  IF user = NoUser
        THEN [user |-> NoUser, clear |-> TRUE, status |-> 404,
              code |-> "USER_NOT_FOUND", error |-> "User not found"]
        ELSE [user |-> user, clear |-> FALSE, status |-> 0, code |-> "", error |-> ""]

\* routes/profile.py, routes/memory.py and routes/worker.py: the user, or the
\* error response; clear tells whether session.clear() ran
require_auth(S, sess) ==
    LET user == get_user_by_id(S, sess.user_id)
    IN  IF sess.user_id = None
        THEN [user |-> NoUser, clear |-> FALSE, status |-> 401,
              code |-> "NOT_AUTHENTICATED", error |-> "Not authenticated"]
        ELSE IF user = NoUser
        THEN [user |-> NoUser, clear |-> TRUE, status |-> 404,
              code |-> "USER_NOT_FOUND", error |-> "User not found"]
        ELSE [user |-> user, clear |-> FALSE, status |-> 0, code |-> "", error |-> ""]

\* routes/dashboard.py: returns (None, None) in both failure cases, and the
\* handlers answer 401 NOT_AUTHENTICATED when the user is None
require_auth_dashboard(S, sess) ==
    LET user == get_user_by_id(S, sess.user_id)
    IN  IF sess.user_id = None
        THEN [user |-> NoUser, clear |-> FALSE, status |-> 401,
              code |-> "NOT_AUTHENTICATED", error |-> "Not authenticated"]
        ELSE IF user = NoUser
        THEN [user |-> NoUser, clear |-> TRUE, status |-> 401,
              code |-> "NOT_AUTHENTICATED", error |-> "Not authenticated"]
        ELSE [user |-> user, clear |-> FALSE, status |-> 0, code |-> "", error |-> ""]

\* the session of client c after require_auth
after_auth(c, auth) == IF auth.clear THEN clear_session(c) ELSE session

\* ---------------------------------------------------- routes/dashboard.py
\* the response of a request that called the worker: the reply it got, what
\* the client method returned, the payload of the response and its
\* 'available' flag
Upstream(response, reply, result, data, available) ==
    [response EXCEPT !.reply = reply, !.result = result, !.data = data,
                     !.available = available]

\* result.get('status') == status
status_is(result, status) ==
    LET s == get(result, "status", Null) IN s.t = "str" /\ s.v = status

\* the fields of an "unavailable" answer of GET /api/recommendations
Unavailable ==
    [sleep_score |-> Null, confidence |-> Null, issues |-> EmptyList,
     recommendations |-> EmptyObj, personalized_tips |-> EmptyList]

\* GET /api/recommendations
Recommendations(c, reply) ==
    /\ pc[c] = "idle"
    /\ LET auth == require_auth_dashboard(store, session[c])
           user == auth.user
           task == send_task(user.user_id, user.profile, <<>>)
           analysis_result == send_task_result(reply)
           value == analysis_result.value
           result_data == get(value, "result", EmptyObj)
           ok == Response(c, "recommendations", NoBody, None, session[c],
                          200, "", "", user, task)
           failed == Response(c, "recommendations", NoBody, None, session[c], 500,
                              "INTERNAL_ERROR", "Internal server error", user, task)
       IN  /\ session' = after_auth(c, auth)
           /\ IF user = NoUser
              THEN last' = Response(c, "recommendations", NoBody, None, session[c],
                                    auth.status, auth.code, auth.error, NoUser, NoTask)
              ELSE IF analysis_result.raised
              THEN last' = Upstream(failed, reply, analysis_result, Absent, FALSE)
              ELSE IF value.t = "null"
              THEN last' = Upstream(ok, reply, analysis_result, Obj(Unavailable), FALSE)
              ELSE IF ~IsObj(value)
              THEN \* analysis_result.get: AttributeError, caught by except Exception
                   last' = Upstream(failed, reply, analysis_result, Absent, FALSE)
              ELSE IF status_is(value, S_error)
              THEN last' = Upstream(ok, reply, analysis_result,
                                    Obj(Fields(Unavailable,
                                               [error |-> get(value, "error",
                                                              Str(S_analysis_failed))])),
                                    FALSE)
              ELSE IF ~IsObj(result_data)
              THEN \* result_data.get: AttributeError, caught by except Exception
                   last' = Upstream(failed, reply, analysis_result, Absent, FALSE)
              ELSE last' = Upstream(ok, reply, analysis_result,
                                    Obj([sleep_score |-> get(result_data, "sleep_score", Null),
                                         confidence |-> get(result_data, "confidence", Null),
                                         issues |-> get(result_data, "issues", EmptyList),
                                         recommendations |->
                                             get(result_data, "recommendations", EmptyObj),
                                         personalized_tips |->
                                             get(result_data, "personalized_tips", EmptyList)]),
                                    TRUE)
    /\ UNCHANGED <<store, nextId, now, pc, local, creds, db_up>>

SleepSessionInputs == {<<>>, <<"s1">>}

AnalyzeBodies ==
    {NoBody} \cup
    {[Credentials(<<>>, <<>>) EXCEPT !.sleep_sessions = ss] : ss \in SleepSessionInputs} \cup
    {[ProfileBody(ProfileAge30) EXCEPT !.sleep_sessions = <<"s1">>]}

\* an analysis that saves the profile of the request to the user's record
Analyze_saves_profile(c, body, reply) ==
    /\ pc[c] = "idle"
    /\ LET auth == require_auth_dashboard(store, session[c])
           user == auth.user
           profile == IF body.has_profile THEN body.profile ELSE user.profile
           task == send_task(user.user_id, profile, body.sleep_sessions)
           result == send_task_result(reply)
       IN  /\ user # NoUser
           /\ body.present
           /\ ~result.raised
           /\ IsObj(result.value)
           /\ store' = update_user(store, [user EXCEPT !.profile = profile]).store
           /\ last' = Upstream(Response(c, "analyze", body, None, session[c], 200,
                                        "", "", user, task),
                               reply, result,
                               Obj([success |-> Bool(TRUE),
                                    result |-> get(result.value, "result", EmptyObj)]),
                               FALSE)
    /\ UNCHANGED <<nextId, now, session, pc, local, creds, db_up>>

\* POST /api/analyze
Analyze(c, body, reply) ==
    /\ pc[c] = "idle"
    /\ LET auth == require_auth_dashboard(store, session[c])
           user == auth.user
           profile == IF body.has_profile THEN body.profile ELSE user.profile
           task == send_task(user.user_id, profile, body.sleep_sessions)
           result == send_task_result(reply)
           value == result.value
           failed == Response(c, "analyze", body, None, session[c], 500,
                              "INTERNAL_ERROR", "Internal server error", user, task)
       IN  /\ session' = after_auth(c, auth)
           /\ IF user = NoUser
              THEN last' = Response(c, "analyze", body, None, session[c],
                                    auth.status, auth.code, auth.error, NoUser, NoTask)
              ELSE IF ~body.present
              THEN \* data is None: data.get raises, caught by except Exception
                   last' = Response(c, "analyze", body, None, session[c], 500,
                                    "INTERNAL_ERROR", "Internal server error", user, NoTask)
              ELSE IF result.raised
              THEN last' = Upstream(failed, reply, result, Absent, FALSE)
              ELSE IF value.t = "null"
              THEN last' = Upstream(Response(c, "analyze", body, None, session[c], 503,
                                             "WORKER_AGENT_ERROR",
                                             "Failed to analyze data. Worker agent may be unavailable.",
                                             user, task),
                                    reply, result, Absent, FALSE)
              ELSE IF ~IsObj(value)
              THEN \* result.get: AttributeError, caught by except Exception
                   last' = Upstream(failed, reply, result, Absent, FALSE)
              ELSE IF status_is(value, S_error)
              THEN last' = Upstream(Response(c, "analyze", body, None, session[c], 500,
                                             "ANALYSIS_ERROR", "", user, task),
                                    reply, result,
                                    Obj([error |-> get(value, "error", Str(S_analysis_failed))]),
                                    FALSE)
              ELSE last' = Upstream(Response(c, "analyze", body, None, session[c], 200,
                                             "", "", user, task),
                                    reply, result,
                                    Obj([success |-> Bool(TRUE),
                                         result |-> get(value, "result", EmptyObj)]),
                                    FALSE)
    /\ UNCHANGED <<store, nextId, now, pc, local, creds, db_up>>

\* ------------------------------------------------------- routes/memory.py
\* the memory GET /api/memory answers with when the worker gave none
DefaultMemory ==
    Obj([stm |-> Obj([sessions |-> EmptyList, count |-> Num(0)]),
         ltm |-> Obj([trends |-> EmptyObj, patterns |-> EmptyList,
                      preferences |-> EmptyObj, available |-> Bool(FALSE)])])

\* GET /api/memory
Memory(c, reply) ==
    /\ pc[c] = "idle"
    /\ LET auth == require_auth(store, session[c])
           user == auth.user
           task == get_memory(user.user_id)
           memory == get_memory_result(reply)
       IN  /\ session' = after_auth(c, auth)
           /\ IF user = NoUser
              THEN last' = Response(c, "memory", NoBody, None, session[c],
                                    auth.status, auth.code, auth.error, NoUser, NoTask)
              ELSE IF memory.value.t = "null"
              THEN last' = Upstream(Response(c, "memory", NoBody, None, session[c], 200,
                                             "WORKER_AGENT_ERROR",
                                             "Failed to fetch memory from worker agent",
                                             user, task),
                                    reply, memory, Obj([memory |-> DefaultMemory]), FALSE)
              ELSE last' = Upstream(Response(c, "memory", NoBody, None, session[c], 200,
                                             "", "", user, task),
                                    reply, memory, Obj([memory |-> memory.value]), TRUE)
    /\ UNCHANGED <<store, nextId, now, pc, local, creds, db_up>>

\* ------------------------------------------------------ routes/profile.py
\* ?user_id= query parameter: absent, the id of the first user, or an id
\* that no user has
ParamInputs == {None, 1, StaleId}

\* GET /api/profile
GetProfile(c, param) ==
    /\ pc[c] = "idle"
    /\ IF param # None
       THEN LET user == get_user_by_id(store, param)
            IN  /\ IF user = NoUser
                   THEN last' = Response(c, "get_profile", NoBody, param, session[c], 404,
                                         "USER_NOT_FOUND", "User not found", NoUser, NoTask)
                   ELSE last' = Response(c, "get_profile", NoBody, param, session[c], 200,
                                         "", "", user, NoTask)
                /\ UNCHANGED session
       ELSE LET auth == require_auth(store, session[c])
            IN  /\ session' = after_auth(c, auth)
                /\ IF auth.user = NoUser
                   THEN last' = Response(c, "get_profile", NoBody, param, session[c],
                                         auth.status, auth.code, auth.error, NoUser, NoTask)
                   ELSE last' = Response(c, "get_profile", NoBody, param, session[c], 200,
                                         "", "", auth.user, NoTask)
    /\ UNCHANGED <<store, nextId, now, pc, local, creds, db_up>>

UpdateBodies == {NoBody, ProfileBody(EmptyProfile), ProfileBody(ProfileAge30)}

\* replacing the profile by the payload
merge_replace(Q, P) == P

\* dict.update: the keys of P overlay those of Q
merge(Q, P) ==
    [k \in (DOMAIN Q) \cup (DOMAIN P) |-> IF k \in DOMAIN P THEN P[k] ELSE Q[k]]

\* PUT /api/profile, up to user.profile.update(profile)
UpdateProfileBegin(c, param, body) ==
    /\ pc[c] = "idle"
    /\ LET auth == IF param # None
                   THEN [require_auth(store, [user_id |-> param, username |-> <<>>])
                            EXCEPT !.clear = FALSE]
                   ELSE require_auth(store, session[c])
           user == auth.user
       IN  /\ session' = after_auth(c, auth)
           /\ IF user = NoUser
              THEN /\ last' = Response(c, "update_profile", body, param, session[c],
                                       auth.status, auth.code, auth.error, NoUser, NoTask)
                   /\ UNCHANGED <<pc, local>>
              ELSE IF ~body.present
              THEN /\ last' = Response(c, "update_profile", body, param, session[c], 400,
                                       "INVALID_REQUEST", "Invalid request", NoUser, NoTask)
                   /\ UNCHANGED <<pc, local>>
              ELSE IF body.profile = EmptyProfile
              THEN /\ last' = Response(c, "update_profile", body, param, session[c], 400,
                                       "MISSING_DATA", "No profile data provided",
                                       NoUser, NoTask)
                   /\ UNCHANGED <<pc, local>>
              ELSE /\ pc' = [pc EXCEPT ![c] = "profile_update"]
                   /\ local' = [local EXCEPT ![c] =
                                   [body |-> body, param |-> param,
                                    user |-> [user EXCEPT !.profile = merge(@, body.profile)],
                                    sess |-> session[c]]]
                   /\ last' = Received(c, "update_profile")
    /\ UNCHANGED <<store, nextId, now, creds, db_up>>

\* PUT /api/profile, from user_storage.update_user on
UpdateProfileWrite(c) ==
    /\ pc[c] = "profile_update"
    /\ LET user == local[c].user
           r == update_user(store, user)
       IN  /\ store' = r.store
           /\ IF r.ok
              THEN last' = Response(c, "update_profile", local[c].body, local[c].param,
                                    local[c].sess, 200, "", "", user, NoTask)
              ELSE last' = Response(c, "update_profile", local[c].body, local[c].param,
                                    local[c].sess, 500, "UPDATE_ERROR",
                                    "Failed to update profile", NoUser, NoTask)
    /\ pc' = [pc EXCEPT ![c] = "idle"]
    /\ local' = [local EXCEPT ![c] = NoLocal]
    /\ UNCHANGED <<nextId, now, session, creds, db_up>>

\* ---------------------------------------------------------------- MongoDB
\* the connection to MongoDB is lost
Disconnect ==
    /\ db_up
    /\ db_up' = FALSE
    /\ UNCHANGED <<store, nextId, now, session, pc, local, last, creds>>

\* ... and comes back
Reconnect ==
    /\ ~db_up
    /\ db_up' = TRUE
    /\ UNCHANGED <<store, nextId, now, session, pc, local, last, creds>>

\* ---------------------------------------------------------- specification
\* no request is in flight
Quiet == \A c \in Clients : pc[c] = "idle"

\* The gateway serving the requests of all clients one at a time
Next ==
    \/ \E c \in Clients, body \in RegisterBodies : Quiet /\ RegisterBegin(c, body)
    \/ \E c \in Clients : RegisterSave(c)
    \/ \E c \in Clients, body \in LoginBodies : Quiet /\ LoginBegin(c, body)
    \/ \E c \in Clients : LoginFinish(c)
    \/ \E c \in Clients : Quiet /\ Logout(c)
    \/ \E c \in Clients : Quiet /\ CurrentUser(c)
    \/ \E c \in Clients, reply \in BasicReplies : Quiet /\ Recommendations(c, reply)
    \/ \E c \in Clients, body \in AnalyzeBodies, reply \in BasicReplies :
          Quiet /\ Analyze(c, body, reply)
    \/ \E c \in Clients, reply \in BasicMemoryReplies : Quiet /\ Memory(c, reply)
    \/ \E c \in Clients, param \in ParamInputs : Quiet /\ GetProfile(c, param)
    \/ \E c \in Clients, param \in ParamInputs, body \in UpdateBodies :
            Quiet /\ UpdateProfileBegin(c, param, body)
    \/ \E c \in Clients : UpdateProfileWrite(c)

Spec == Init /\ [][Next]_vars

\* Registration, login and logout with the requests of different clients
\* interleaved at their storage round-trips (one thread per request), on
\* valid inputs
ConcurrentRegisterBodies ==
    {b \in RegisterBodies : register_user_check({}, strip(b.username), b.password) = ""}

ConcurrentLoginBodies == {Credentials(U_abc, P_good), Credentials(U_bob, P_other)}

NextConcurrent ==
    \/ \E c \in Clients, body \in ConcurrentRegisterBodies : RegisterBegin(c, body)
    \/ \E c \in Clients : RegisterSave(c)
    \/ \E c \in Clients, body \in ConcurrentLoginBodies : LoginBegin(c, body)
    \/ \E c \in Clients : LoginFinish(c)
    \/ \E c \in Clients : Logout(c)

SpecConcurrent == Init /\ [][NextConcurrent]_vars

\* Concurrent register_user calls alone: every client may be between the
\* user_exists pre-check and the insert at the same time
NextRegisterRace ==
    \/ \E c \in Clients, body \in ConcurrentRegisterBodies : RegisterBegin(c, body)
    \/ \E c \in Clients : RegisterSave(c)

SpecRegisterRace == Init /\ [][NextRegisterRace]_vars

\* The endpoints that call the worker, served one request at a time to
\* clients that register and log out, with every answer the worker can give
NextUpstream ==
    \/ \E c \in Clients, body \in ConcurrentRegisterBodies : Quiet /\ RegisterBegin(c, body)
    \/ \E c \in Clients : RegisterSave(c)
    \/ \E c \in Clients : Quiet /\ Logout(c)
    \/ \E c \in Clients, reply \in TaskReplies : Quiet /\ Recommendations(c, reply)
    \/ \E c \in Clients, body \in AnalyzeBodies, reply \in TaskReplies :
          Quiet /\ Analyze(c, body, reply)
    \/ \E c \in Clients, reply \in MemoryReplies : Quiet /\ Memory(c, reply)

SpecUpstream == Init /\ [][NextUpstream]_vars

\* A call of WorkerClient.get_recommendations whose GET /memory the worker
\* answers with last.reply
InitNormalizer ==
    /\ store = {}
    /\ nextId = 1
    /\ now = 1
    /\ session = [c \in Clients |-> EmptySession]
    /\ pc = [c \in Clients |-> "idle"]
    /\ local = [c \in Clients |-> NoLocal]
    /\ \E reply \in NormalizerReplies :
          last = [NoRequest EXCEPT !.op = "get_recommendations", !.reply = reply]
    /\ creds = {}
    /\ db_up = TRUE

\* WorkerClient.get_recommendations(user_id)
GetRecommendations(user_id) ==
    /\ last.op = "get_recommendations"
    /\ ~last.task.called
    /\ LET memory == get_memory_result(last.reply).value
           summary == get_recommendations(memory)
       IN  last' = [last EXCEPT !.task = get_memory(user_id),
                                !.result = [raised |-> summary.raised,
                                            value |-> summary.value],
                                !.memory = summary.memory]
    /\ UNCHANGED <<store, nextId, now, session, pc, local, creds, db_up>>

NextNormalizer == \E user_id \in 1..MaxUsers : GetRecommendations(user_id)

SpecNormalizer == InitNormalizer /\ [][NextNormalizer]_vars

\* The requests served one at a time while MongoDB may go away and come
\* back at any moment, also between the two storage calls of one request
FaultRegisterBodies ==
    {Credentials(U_abc, P_good),
     [Credentials(U_bob, P_other) EXCEPT !.profile = ProfileBob, !.has_profile = TRUE]}

FaultLoginBodies == {Credentials(U_abc, P_good), Credentials(U_abc, P_other)}

NextFaults ==
    \/ \E c \in Clients, body \in FaultRegisterBodies : Quiet /\ RegisterBegin(c, body)
    \/ \E c \in Clients : RegisterSave(c)
    \/ \E c \in Clients, body \in FaultLoginBodies : Quiet /\ LoginBegin(c, body)
    \/ \E c \in Clients : LoginFinish(c)
    \/ \E c \in Clients : Quiet /\ Logout(c)
    \/ \E c \in Clients : Quiet /\ CurrentUser(c)
    \/ \E c \in Clients : Quiet /\ Recommendations(c, Reply("ok", Completed(FullResult)))
    \/ \E c \in Clients :
          Quiet /\ Analyze(c, ProfileBody(ProfileAge30), Reply("ok", Completed(FullResult)))
    \/ \E c \in Clients : Quiet /\ Memory(c, Reply("ok", MemoryExample))
    \/ \E c \in Clients : Quiet /\ GetProfile(c, None)
    \/ \E c \in Clients : Quiet /\ UpdateProfileBegin(c, None, ProfileBody(ProfileAge30))
    \/ \E c \in Clients : UpdateProfileWrite(c)
    \/ Disconnect
    \/ Reconnect

SpecFaults == Init /\ [][NextFaults]_vars

\* Registration, logout and the profile endpoints, served one request at a
\* time
ProfileUpdateBodies == UpdateBodies \cup {ProfileBody(ProfileGoal)}

NextProfile ==
    \/ \E c \in Clients, body \in FaultRegisterBodies : Quiet /\ RegisterBegin(c, body)
    \/ \E c \in Clients : RegisterSave(c)
    \/ \E c \in Clients : Quiet /\ Logout(c)
    \/ \E c \in Clients, param \in ParamInputs : Quiet /\ GetProfile(c, param)
    \/ \E c \in Clients, param \in ParamInputs, body \in ProfileUpdateBodies :
          Quiet /\ UpdateProfileBegin(c, param, body)
    \/ \E c \in Clients : UpdateProfileWrite(c)

SpecProfile == Init /\ [][NextProfile]_vars

\* Requests of the same user served by interleaved workers: one registration,
\* logins and profile updates with disjoint keys
RaceCredentials == {Credentials(U_abc, P_good)}

RaceUpdateBodies == {ProfileBody(ProfileAge30), ProfileBody(ProfileGoal)}

NextProfileRace ==
    \/ \E c \in Clients, body \in RaceCredentials : RegisterBegin(c, body)
    \/ \E c \in Clients : RegisterSave(c)
    \/ \E c \in Clients, body \in RaceCredentials : LoginBegin(c, body)
    \/ \E c \in Clients : LoginFinish(c)
    \/ \E c \in Clients, body \in RaceUpdateBodies : UpdateProfileBegin(c, None, body)
    \/ \E c \in Clients : UpdateProfileWrite(c)

SpecProfileRace == Init /\ [][NextProfileRace]_vars

\* ----------------------------------------------------------------- claims
\* the latest request has been answered
Answered == last.status # 0

\* the username and password the latest request carried to the auth service
GivenUsername == strip(last.body.username)
GivenPassword == last.body.password

\* the latest request carried credentials that pass validation
ValidCredentials ==
    last.body.present /\ Len(GivenUsername) >= 3 /\ Len(GivenPassword) >= 6

Anonymous == to_dict(NoUser)

\* the endpoints behind a session
ProtectedOps ==
    {"current_user", "get_profile", "update_profile", "recommendations", "analyze", "memory"}

\* the latest request went to a protected endpoint without a user_id
\* parameter and was answered
Gated == last.op \in ProtectedOps /\ last.param = None /\ Answered

\* ... with a session whose user_id no stored user has
StaleRequest ==
    Gated /\ last.sess.user_id # None /\ \A d \in store : d._id # last.sess.user_id

\* C1: under any interleaving of register_user calls with one username,
\* at most one call returns a user, every other call returns an error and
\* no user, and the store never holds two records with that username.
C1_UniqueRegistration ==
    /\ \A d1, d2 \in store : d1.username = d2.username => d1 = d2
    /\ \A r1, r2 \in creds : r1.username = r2.username => r1 = r2
    /\ (last.op = "register" /\ Answered) =>
        \/ /\ last.status = 201
           /\ last.user.user_id # None
           /\ [username |-> GivenUsername, password |-> GivenPassword,
               user_id |-> last.user.user_id] \in creds
        \/ /\ last.status = 400
           /\ last.error # ""
           /\ last.user = Anonymous

\* C1 witness: two calls passed the user_exists pre-check with one username;
\* one inserted, the other was stopped by the unique index.
C1_Witness ==
    /\ last.op = "register"
    /\ last.error = "Failed to save user"
    /\ \E d \in store : d.username = GivenUsername

\* the state part of C2
C2_Rejected ==
    (/\ last.op = "register"
     /\ Answered
     /\ ValidCredentials
     /\ \E r \in creds : r.username = GivenUsername /\ r.user_id # last.user.user_id)
    => /\ last.status = 400
       /\ last.code = "REGISTRATION_ERROR"
       /\ last.error = "Username already exists"
       /\ last.user = Anonymous
       /\ Cardinality({d \in store : d.username = GivenUsername}) = 1

\* C2: a register_user call for a username registered before fails with
\* "Username already exists" and returns no user; the store then holds
\* exactly one record for that username, and the failing call wrote nothing.
C2_SecondRegistrationFails ==
    /\ []C2_Rejected
    /\ [][(last'.op = "register" /\ last'.status = 400) => store' = store]_vars

\* C2 witness: a second registration of a stored username was rejected.
C2_Witness ==
    /\ last.op = "register"
    /\ ValidCredentials
    /\ last.error = "Username already exists"
    /\ Cardinality({d \in store : d.username = GivenUsername}) = 1

\* C3: a login with the credentials of an earlier successful registration
\* succeeds, whatever happened in between, and returns the user_id that the
\* registration returned.
C3_RegisterThenAuthenticate ==
    \A r \in creds :
        (/\ last.op = "login"
         /\ Answered
         /\ last.body.present
         /\ r.username = GivenUsername
         /\ r.password = GivenPassword)
        => /\ last.status = 200
           /\ last.user.user_id = r.user_id
           /\ last.user.username = r.username

\* C3 witness: the user registered with an empty profile, the profile was
\* updated, and a later login with the registered credentials succeeded.
C3_Witness ==
    /\ last.op = "login"
    /\ last.status = 200
    /\ last.user.profile = ProfileAge30
    /\ \E r \in creds : r.username = GivenUsername /\ r.password = GivenPassword

\* the response to a login with credentials that are wrong
InvalidCredentials ==
    [status |-> 401, code |-> "AUTHENTICATION_ERROR",
     error |-> "Invalid username or password", user |-> Anonymous]

\* what the caller of the latest request sees
Seen == [status |-> last.status, code |-> last.code, error |-> last.error, user |-> last.user]

\* a login with a username and a password, the username not registered
UnknownUsername ==
    /\ last.op = "login" /\ Answered /\ last.body.present
    /\ GivenUsername # <<>> /\ GivenPassword # <<>>
    /\ \A r \in creds : r.username # GivenUsername

\* a login with a registered username and a password that is not its password
WrongPassword ==
    /\ last.op = "login" /\ Answered /\ last.body.present
    /\ GivenUsername # <<>> /\ GivenPassword # <<>>
    /\ \E r \in creds : r.username = GivenUsername /\ r.password # GivenPassword

\* C4: a login with a wrong password for an existing username and a login with
\* a username that does not exist get one and the same response (status, code,
\* message, body), so the caller cannot tell the two apart.
C4_NoEnumeration == (UnknownUsername \/ WrongPassword) => Seen = InvalidCredentials

\* C4 witness: a login with a registered username and a wrong password failed.
C4_Witness == WrongPassword /\ last.status = 401

\* C5 as stated: every failed login, the one with a missing username
\* included, fails with the one invalid-credentials error.
C5_SingleError ==
    (last.op = "login" /\ Answered /\ last.body.present /\ last.status # 200)
    => last.error = "Invalid username or password"

\* C5 amended: every failed login is answered 401 AUTHENTICATION_ERROR without
\* a user; the message is "Invalid username or password" when the username is
\* not found or the password does not match, and "Username and password are
\* required" when the username or the password is missing.
C5_FailedLogin ==
    (last.op = "login" /\ Answered /\ last.body.present /\ last.status # 200)
    => /\ last.status = 401
       /\ last.code = "AUTHENTICATION_ERROR"
       /\ last.user = Anonymous
       /\ last.error = IF GivenUsername = <<>> \/ GivenPassword = <<>>
                       THEN "Username and password are required"
                       ELSE "Invalid username or password"

\* C5 witness: a login without a username was refused.
C5_Witness ==
    /\ last.op = "login" /\ last.body.present /\ GivenUsername = <<>>
    /\ last.status = 401

\* C6 as stated: a protected request with a stale session leaves the session
\* cleared and is answered 401 NOT_AUTHENTICATED.
C6_StaleIsUnauthenticated ==
    StaleRequest
    => /\ session[last.client] = EmptySession
       /\ last.status = 401
       /\ last.code = "NOT_AUTHENTICATED"

\* C6 amended: a protected request with a stale session leaves the session
\* cleared, calls no worker, returns no user data and is answered with a
\* client error, 401 NOT_AUTHENTICATED or 404 USER_NOT_FOUND, never a 5xx.
C6_StaleIsClientError ==
    StaleRequest
    => /\ session[last.client] = EmptySession
       /\ \/ last.status = 401 /\ last.code = "NOT_AUTHENTICATED"
          \/ last.status = 404 /\ last.code = "USER_NOT_FOUND"
       /\ last.user = Anonymous
       /\ ~last.task.called

\* C6 witness: a protected request with a stale session was answered 404.
C6_Witness == StaleRequest /\ last.status = 404 /\ session[last.client] = EmptySession

\* C7: every protected request with a stale session leaves the session
\* cleared and is answered 404 USER_NOT_FOUND.
C7_StaleIsNotFound ==
    StaleRequest
    => /\ session[last.client] = EmptySession
       /\ last.status = 404
       /\ last.code = "USER_NOT_FOUND"

\* the state part of C8
C8_Refused ==
    /\ (Gated /\ last.sess.user_id = None)
        => /\ last.status = 401
           /\ last.code = "NOT_AUTHENTICATED"
           /\ ~last.task.called
           /\ last.user = Anonymous
    /\ (last.op = "logout" /\ last.sess.user_id = None) => last.status = 200

\* C8: with no user_id in the session every protected endpoint answers
\* 401 NOT_AUTHENTICATED, calls no worker and writes nothing to the store;
\* POST /logout still answers 200.
C8_NoSessionNoService ==
    /\ []C8_Refused
    /\ [][(/\ last'.op \in ProtectedOps \cup {"logout"}
           /\ last'.param = None
           /\ last'.status # 0
           /\ last'.sess.user_id = None) => store' = store]_vars

\* C8 witness: POST /api/analyze without a session, with users in the store.
C8_Witness ==
    /\ Gated /\ last.op = "analyze" /\ last.sess.user_id = None
    /\ last.body.present /\ store # {}

\* the state part of C9
C9_LoggedOut ==
    last.op = "logout" => last.status = 200 /\ session[last.client] = EmptySession

\* C9: after POST /logout the session holds no identity; while it holds none,
\* every protected request of that client is answered 401 NOT_AUTHENTICATED;
\* and it comes to hold an identity only by a successful login or registration
\* of that client.
C9_SessionLifecycle ==
    /\ []C9_LoggedOut
    /\ [][\A c \in Clients :
            /\ (/\ session[c].user_id = None
                /\ last' # last
                /\ last'.client = c
                /\ last'.op \in ProtectedOps
                /\ last'.param = None
                /\ last'.status # 0)
               => last'.status = 401 /\ last'.code = "NOT_AUTHENTICATED"
            /\ (session[c].user_id = None /\ session'[c].user_id # None)
               => /\ last'.client = c
                  /\ last'.op \in {"login", "register"}
                  /\ last'.status \in {200, 201}]_vars

\* C9 witness: a client authenticated as a stored user has logged out.
C9_Witness ==
    /\ last.op = "logout"
    /\ \E d \in store : d._id = last.sess.user_id
    /\ session[last.client] = EmptySession

\* the state part of C10
C10_SessionSet ==
    (last.op = "register" /\ last.status = 201)
    => /\ session[last.client] =
            [user_id |-> last.user.user_id, username |-> last.user.username]
       /\ \E d \in store : d._id = last.user.user_id /\ d.username = last.user.username
       /\ last.user.username = GivenUsername

\* C10: a POST /register answered 201 leaves the session holding the user_id
\* and username of the record just created, and the next protected request of
\* that client is served as that user.
C10_RegisterLogsIn ==
    /\ []C10_SessionSet
    /\ [][(/\ last.op = "register"
           /\ last.status = 201
           /\ last' # last
           /\ last'.client = last.client
           /\ last'.op \in ProtectedOps
           /\ last'.param = None
           /\ last'.status # 0)
          => /\ last'.status \notin {401, 404}
             /\ last'.status = 200 => last'.user.user_id = last.user.user_id]_vars

\* C10 witness: a registration was answered 201 for a client whose session
\* held another identity before.
C10_Witness ==
    /\ last.op = "register"
    /\ last.status = 201
    /\ last.sess.user_id # None
    /\ session[last.client].user_id = last.user.user_id

\* ------------------------------------------------- claims on the upstream
\* the latest request was served for an authenticated user by calling the
\* worker
Called == Answered /\ last.task.called

\* the worker could not be reached
Unreachable == last.reply.kind \in {"timeout", "connection_error"}

\* the worker answered with an error envelope
ErrorReported ==
    /\ last.reply.kind = "ok"
    /\ IsObj(last.reply.body)
    /\ status_is(last.reply.body, S_error)

\* the answer of GET /api/recommendations says "unavailable" with nulled
\* fields
Nulled ==
    /\ ~last.available
    /\ IsObj(last.data)
    /\ \A k \in DOMAIN Unavailable : get(last.data, k, Absent) = Unavailable[k]

\* C11: when the upstream call times out, the client method returns None
\* without raising; POST /api/analyze then answers 503 WORKER_AGENT_ERROR and
\* GET /api/recommendations answers 200 with available false, sleep_score and
\* confidence null, and empty issues, recommendations and personalized_tips.
C11_TimeoutIsUnavailable ==
    (Called /\ last.reply.kind = "timeout")
    => /\ last.result = Returned(NoneResult)
       /\ last.op = "analyze" => last.status = 503 /\ last.code = "WORKER_AGENT_ERROR"
       /\ last.op = "recommendations" => last.status = 200 /\ Nulled

\* C11 witness: GET /api/recommendations of an authenticated user was
\* answered after the call to the worker timed out.
C11_Witness ==
    /\ last.op = "recommendations"
    /\ Called
    /\ last.reply.kind = "timeout"
    /\ last.status = 200

\* C12, as stated: a non-2xx answer of the worker gives the caller a result
\* that carries the worker's error body and differs from the result of a
\* timeout or a connection failure.
C12_ErrorIsDistinguishable ==
    (Called /\ last.reply.kind = "http_error")
    => /\ last.result # Returned(make_request(Reply("timeout", Absent)))
       /\ last.result # Returned(make_request(Reply("connection_error", Absent)))
       /\ last.result.value = last.reply.body

\* C13, as stated: for an authenticated user POST /api/analyze answers 503
\* exactly when the worker could not be reached, 500 exactly when the worker
\* responded with an error (an error envelope or a non-2xx answer), and 200
\* otherwise.
C13_AnalyzeStatus ==
    (/\ last.op = "analyze"
     /\ Called
     /\ \/ Unreachable
        \/ last.reply.kind = "http_error"
        \/ last.reply.kind = "ok" /\ IsObj(last.reply.body))
    => /\ last.status = 503 <=> Unreachable
       /\ last.status = 500 <=> (ErrorReported \/ last.reply.kind = "http_error")
       /\ last.status \in {200, 500, 503}

\* C14, as stated: for an authenticated user GET /api/recommendations is
\* answered 200 whatever the worker does, with available false and nulled
\* fields when the worker could not be reached or reported an error.
C14_RecommendationsNeverFail ==
    (last.op = "recommendations" /\ Called)
    => /\ last.status = 200
       /\ (Unreachable \/ last.reply.kind = "http_error" \/ ErrorReported) => Nulled

\* what the Response Normalizer yields for the result of a completed task
NormalizedResult == get_recommendations(Obj([ltm |-> get(last.reply.body, "result", EmptyObj)])).value

\* C15, as stated: GET /api/recommendations calls send_task with an empty
\* list of new sessions, and on upstream success its sleep_score, confidence
\* and issues are those the Response Normalizer yields for the upstream
\* result.
C15_NormalizedRecommendations ==
    (last.op = "recommendations" /\ Called)
    => /\ last.task.sleep_sessions = <<>>
       /\ last.available =>
            \A k \in {"sleep_score", "confidence", "issues"} :
                get(last.data, k, Absent) = get(NormalizedResult, k, Absent)

\* C16: for an authenticated user GET /api/memory answers 200; its memory is
\* the fixed default document when the fetch failed (timeout, connection
\* failure, non-2xx, unparseable body), and the worker's document, unchanged,
\* when the fetch gave one.
C16_MemoryOrDefault ==
    (last.op = "memory" /\ Called)
    => /\ last.status = 200
       /\ last.reply \in Failures => last.data = Obj([memory |-> DefaultMemory])
       /\ (last.reply.kind = "ok" /\ last.reply.body.t # "null")
            => last.data = Obj([memory |-> last.reply.body])

\* C16 witness: the worker answered GET /memory with a non-2xx status and
\* the client got the default document.
C16_Witness ==
    /\ last.op = "memory"
    /\ Called
    /\ last.reply.kind = "http_error"
    /\ last.status = 200
    /\ get(last.data, "memory", Absent) = DefaultMemory

\* ----------------------------------------------- claims on the normalizer
\* WorkerClient.get_recommendations has been called and is over
Summarised == last.op = "get_recommendations" /\ last.task.called

\* the memory it got from get_memory, and the ltm object in it
GivenMemory == make_request(last.reply)
GivenLtm == get(GivenMemory, "ltm", EmptyObj)

\* ... and it returned a summary
Summary == Summarised /\ ~last.result.raised /\ IsObj(last.result.value)

\* C17, as stated: for every memory object, malformed or empty ones
\* included, the normalizer returns a summary and never raises.
C17_Total ==
    (Summarised /\ IsObj(GivenMemory))
    => /\ ~last.result.raised
       /\ IsObj(last.result.value)
       /\ DOMAIN last.result.value.v = DOMAIN Unavailable

\* C18, as stated: the memory object passed in is unchanged after the call.
C18_Pure == Summarised => last.memory = GivenMemory

\* the top-level value under key when there is one, else the value of trends
\* under fallback, else null
FirstPresent(key, fallback) ==
    LET trends == get(GivenLtm, "trends", EmptyObj)
    IN  IF key \in DOMAIN GivenLtm.v /\ GivenLtm.v[key].t # "null" THEN GivenLtm.v[key]
        ELSE IF IsObj(trends) /\ fallback \in DOMAIN trends.v THEN trends.v[fallback]
        ELSE Null

\* C19: in a summary, sleep_score is the top-level sleep_score when present
\* (0 included), else trends.avg_sleep_score, else null; confidence is the
\* top-level confidence when present (0 included), else trends.confidence,
\* else null; recommendations and personalized_tips are the top-level
\* fields, an empty mapping and an empty list when missing.
C19_ResolutionOrder ==
    Summary
    => /\ get(last.result.value, "sleep_score", Absent)
            = FirstPresent("sleep_score", "avg_sleep_score")
       /\ get(last.result.value, "confidence", Absent)
            = FirstPresent("confidence", "confidence")
       /\ get(last.result.value, "recommendations", Absent)
            = get(GivenLtm, "recommendations", EmptyObj)
       /\ get(last.result.value, "personalized_tips", Absent)
            = get(GivenLtm, "personalized_tips", EmptyList)

\* C19 witness: a summary of a memory whose top-level sleep_score is 0,
\* whose confidence is under trends only, and that has no recommendations.
C19_Witness ==
    /\ Summary
    /\ get(GivenLtm, "sleep_score", Absent) = Num(0)
    /\ "confidence" \notin DOMAIN GivenLtm.v
    /\ get(GivenLtm, "trends", Absent) = Obj([avg_sleep_score |-> Num(72), confidence |-> Num(80)])
    /\ "recommendations" \notin DOMAIN GivenLtm.v
    /\ get(last.result.value, "sleep_score", Absent) = Num(0)
    /\ get(last.result.value, "confidence", Absent) = Num(80)

\* a pattern that counts as an issue
IsIssue(pattern) ==
    \/ /\ IsObj(pattern)
       /\ get(pattern, "type", Absent).t = "str"
       /\ \/ pattern.v["type"].v = K_issue
          \/ contains(K_problem, lower(pattern.v["type"].v))
          \/ contains(K_warning, lower(pattern.v["type"].v))
    \/ /\ pattern.t = "str"
       /\ contains(K_issue, lower(pattern.v)) \/ contains(K_problem, lower(pattern.v))

\* the issues derived from a list of patterns: the description of each
\* record that counts, each string that counts, in the order of the list
Derived(patterns) ==
    LET issues == SelectSeq(patterns, IsIssue)
    IN  [i \in 1..Len(issues) |->
            IF IsObj(issues[i]) THEN get(issues[i], "description", Str(<<>>)) ELSE issues[i]]

\* C20: in a summary of a memory whose issues and patterns are lists or
\* missing, issues is the top-level list when that is not empty, and else
\* the descriptions of the record patterns whose type is "issue" or contains
\* "problem" or "warning" in any case, and the string patterns that contain
\* "issue" or "problem" in any case, in source order and nothing else.
C20_Issues ==
    LET issues == get(GivenLtm, "issues", EmptyList)
        patterns == get(GivenLtm, "patterns", EmptyList)
    IN  (Summary /\ issues.t = "list" /\ patterns.t = "list")
        => get(last.result.value, "issues", Absent) =
              IF issues.v # <<>> THEN issues ELSE List(Derived(patterns.v))

\* C20 witness: a summary whose issues come from a string pattern and a
\* record pattern of type "Problems", in that order.
C20_Witness ==
    /\ Summary
    /\ "issues" \notin DOMAIN GivenLtm.v
    /\ get(GivenLtm, "patterns", Absent) = List(<<PatIssueString, PatProblem>>)
    /\ get(last.result.value, "issues", Absent) = List(<<PatIssueString, Str(D_nap)>>)

\* ------------------------------------------------- claims on the profile
\* the stored profile of the user with that id
StoredProfile(S, user_id) == (CHOOSE d \in S : d._id = user_id).profile

\* C21: after a PUT /api/profile answered 200 with payload P for a user
\* whose stored profile is Q, the stored and the returned profile map every
\* key of P to P's value and every key of Q not in P to Q's value.
C21_Merge ==
    [][\A c \in Clients :
        (pc[c] = "profile_update" /\ pc'[c] = "idle" /\ last'.status = 200)
        => LET P == local[c].body.profile
               Q == StoredProfile(store, local[c].user.user_id)
               R == StoredProfile(store', local[c].user.user_id)
           IN  /\ DOMAIN R = (DOMAIN Q) \cup (DOMAIN P)
               /\ \A k \in DOMAIN P : R[k] = P[k]
               /\ \A k \in (DOMAIN Q) \ (DOMAIN P) : R[k] = Q[k]
               /\ last'.user.profile = R]_vars

\* C21 witness: {"age": 30} was merged into {"age": 25, "goal": "sleep"}.
C21_Witness ==
    /\ last.op = "update_profile"
    /\ last.status = 200
    /\ last.body.profile = ProfileAge30
    /\ DOMAIN last.user.profile = {"age", "goal"}
    /\ last.user.profile["age"] = 30
    /\ last.user.profile["goal"] = "sleep"
    /\ StoredProfile(store, last.user.user_id) = last.user.profile

\* the record the PUT /api/profile request resolved: the user named by the
\* user_id parameter, or else by the session
Target ==
    IF last.param # None THEN last.param ELSE last.sess.user_id

\* C28: PUT /api/profile with a non-empty profile payload for an existing
\* user always returns 200 with the merged profile, also when the same
\* payload is sent a second time.
C28_UpdateAlwaysOk ==
    ( /\ last.op = "update_profile"
      /\ last.body.present
      /\ last.body.profile # EmptyProfile
      /\ Target # None
      /\ \E d \in store : d._id = Target )
    => /\ last.status = 200
       /\ \A k \in DOMAIN last.body.profile :
             last.user.profile[k] = last.body.profile[k]

\* C22: the user_id and created_at of a stored user never change after the
\* record is created, and no operation deletes a record.
C22_IdentityKept ==
    [][\A d \in store :
          \E e \in store' : e._id = d._id /\ e.created_at = d.created_at]_vars

\* C22 witness: a record that a login and a profile update have rewritten
\* after the time of its creation.
C22_Witness ==
    /\ last.op = "update_profile"
    /\ last.status = 200
    /\ \E d \in store : /\ d._id = last.user.user_id
                        /\ d.last_login # None
                        /\ d.last_login # d.created_at

\* ------------------------------------------------ claims on registration
\* the latest step answered a POST /register that carried a JSON body
RegisterAnswered ==
    /\ last' # last
    /\ last'.op = "register"
    /\ last'.status # 0
    /\ last'.body.present

\* C24: a registration whose username or password is empty, whose username
\* has fewer than 3 characters, whose password has fewer than 6 characters or
\* whose username is taken is rejected with a validation error and no user,
\* writes no record and leaves the session unchanged; a username of exactly
\* 3 characters with a password of exactly 6 characters is accepted.
C24_Validation ==
    [][RegisterAnswered =>
        LET u == strip(last'.body.username)
            p == last'.body.password
            invalid == \/ u = <<>> \/ p = <<>>
                       \/ Len(u) < 3 \/ Len(p) < 6
                       \/ \E d \in store : d.username = u
        IN  /\ invalid => /\ last'.status = 400
                          /\ last'.code = "REGISTRATION_ERROR"
                          /\ last'.user = to_dict(NoUser)
                          /\ store' = store
                          /\ session' = session
            /\ (~invalid /\ Len(u) = 3 /\ Len(p) = 6)
                  => /\ last'.status = 201
                     /\ \E d \in store' \ store : d.username = u]_vars

\* C24 witness: "abc" with "123456" was accepted and a later registration
\* with a password of 5 characters was rejected.
C24_Witness ==
    /\ \E k \in creds : k.username = U_abc /\ k.password = P_good
    /\ last.op = "register"
    /\ last.status = 400
    /\ last.body.password = P_short
    /\ last.error = "Password must be at least 6 characters"

\* ------------------------------------------------ claims on the task sent
\* C25: every task request sent to the worker carries exactly the session
\* records of the request that caused it, an empty list for
\* /api/recommendations, and never those of an earlier request.
C25_OnlyNewRecords ==
    (Called /\ last.task.endpoint = "/task")
    => last.task.sleep_sessions =
          IF last.op = "analyze" THEN last.body.sleep_sessions ELSE <<>>

\* C25 witness: an analysis request with one new session record was sent on.
C25_Witness ==
    /\ Called
    /\ last.op = "analyze"
    /\ last.task.endpoint = "/task"
    /\ last.body.sleep_sessions = <<"s1">>
    /\ last.task.sleep_sessions = <<"s1">>

\* C30: send_task never raises to its caller and returns only a JSON object
\* or None, whatever the worker answered.
C30_SendTaskTotal ==
    (Called /\ last.task.endpoint = "/task")
    => /\ ~last.result.raised
       /\ IsObj(last.result.value) \/ last.result.value.t = "null"

\* --------------------------------------------- claims on storage failures
\* C23: a successful authenticate_user sets the stored record's last_login to
\* the login time; when the storage update fails the login still succeeds and
\* returns the user; a failed authenticate_user leaves every stored record
\* unchanged.
C23_LastLogin ==
    [][/\ \A c \in Clients :
            (pc[c] = "login_update" /\ pc'[c] = "idle")
            => /\ last'.status = 200
               /\ last'.user.user_id = local[c].user.user_id
               /\ last'.user.username = local[c].user.username
               /\ last'.user.last_login = now
               /\ session'[c].user_id = local[c].user.user_id
               /\ db_up => \A d \in store' :
                              d._id = local[c].user.user_id => d.last_login = now
               /\ ~db_up => store' = store
       /\ (last' # last /\ last'.op = "login" /\ last'.status \notin {0, 200})
            => store' = store]_vars

\* C23 witness: a login answered 200 while the write of last_login failed.
C23_Witness ==
    /\ last.op = "login"
    /\ last.status = 200
    /\ ~db_up
    /\ \E d \in store : /\ d._id = last.user.user_id
                        /\ d.last_login # last.user.last_login

\* C29: a session is cleared only by POST /logout or by a protected request
\* whose referenced user does not exist in the store, also when the storage
\* lookup fails.
C29_SessionKept ==
    [][\A c \in Clients :
          (session[c].user_id # None /\ session'[c].user_id = None)
          => \/ last'.op = "logout"
             \/ ~ \E d \in store : d._id = session[c].user_id]_vars

\* ------------------------------------------- claims on interleaved requests
\* client c's PUT /api/profile is answered 200 by this step, right after the
\* 200 answer to another client's PUT for the same user that was written
\* while c's request was in progress
OverlappingUpdates(c) ==
    /\ pc[c] = "profile_update"
    /\ pc'[c] = "idle"
    /\ last'.status = 200
    /\ last.op = "update_profile"
    /\ last.status = 200
    /\ last.client # c
    /\ last.user.user_id = local[c].user.user_id
    /\ (DOMAIN last.body.profile) \cap (DOMAIN local[c].body.profile) = {}

\* C26: when two PUT /api/profile requests for the same user with disjoint
\* keys run concurrently and both return 200, the stored profile afterwards
\* contains the keys of both updates.
C26_NoLostUpdate ==
    [][\A c \in Clients :
          OverlappingUpdates(c)
          => ((DOMAIN last.body.profile) \cup (DOMAIN local[c].body.profile))
                \subseteq DOMAIN StoredProfile(store', local[c].user.user_id)]_vars

\* C27: a successful authenticate_user changes only last_login of the stored
\* record, so a profile committed while the login was in progress is still
\* in the store when the login completes.
C27_LoginKeepsProfile ==
    [][\A c \in Clients :
          (pc[c] = "login_update" /\ pc'[c] = "idle")
          => \A d \in store :
                \E e \in store' : /\ e._id = d._id
                                  /\ e.username = d.username
                                  /\ e.password_hash = d.password_hash
                                  /\ e.profile = d.profile]_vars

\* --------------------------------------- claims on the dashboard's answers
\* the status and code of the three answers the analysis endpoint may give
\* to an authenticated user
AnalyzeAnswers ==
    {<<200, "">>, <<503, "WORKER_AGENT_ERROR">>, <<500, "ANALYSIS_ERROR">>}

\* the worker was not called, or did not answer, or answered with a non-2xx
\* status, or with a 2xx JSON object
WellFormedUpstream ==
    last.task.called
    => \/ last.reply.kind \in {"timeout", "connection_error", "http_error", "invalid_json"}
       \/ last.reply.kind = "ok" /\ IsObj(last.reply.body)

\* C31: for an authenticated user POST /api/analyze answers every request,
\* whatever its body, with 200, 503 WORKER_AGENT_ERROR or 500 ANALYSIS_ERROR
\* and never with 500 INTERNAL_ERROR; a request without sleep_sessions is
\* forwarded with an empty list.
C31_AnalyzeAnyBody ==
    (/\ last.op = "analyze"
     /\ Answered
     /\ last.status # 401
     /\ WellFormedUpstream)
    => /\ <<last.status, last.code>> \in AnalyzeAnswers
       /\ last.task.called
       /\ last.task.sleep_sessions = last.body.sleep_sessions

\* C32: GET /api/recommendations reports available = true only when the
\* worker's response envelope has status "completed".
C32_AvailableOnlyCompleted ==
    (last.op = "recommendations" /\ Answered /\ last.available)
    => status_is(last.reply.body, S_completed)

\* ------------------------------------------------- claims on the session
\* C33: a POST /login or POST /register answered with a 4xx status leaves
\* the session exactly as it was before the request.
C33_FailureKeepsSession ==
    [][(/\ last' # last
        /\ last'.op \in {"login", "register"}
        /\ last'.status >= 400
        /\ last'.status < 500)
       => /\ session' = session
          /\ last'.sess = session[last'.client]]_vars

\* C33 witness: a client authenticated as a user stayed authenticated as
\* that user after a login of its own was refused.
C33_Witness ==
    /\ last.op = "login"
    /\ last.status = 401
    /\ last.sess.user_id # None
    /\ session[last.client] = last.sess
    /\ \E d \in store : d._id = last.sess.user_id /\ d.username = last.sess.username

\* ---------------------------------------------- claims on the user store
\* C34: POST /api/analyze, GET /api/recommendations and GET /api/memory
\* never modify the store, whatever the worker answers and whatever profile
\* the analysis request carries.
C34_ReadOnly ==
    [][last'.op \in {"analyze", "recommendations", "memory"} => store' = store]_vars

\* C34 witness: an analysis was answered 200 for a request whose profile
\* differs from the stored one, which is still in the store.
C34_Witness ==
    /\ last.op = "analyze"
    /\ last.status = 200
    /\ last.body.has_profile
    /\ last.task.profile = last.body.profile
    /\ \E d \in store : /\ d._id = last.user.user_id
                        /\ d.profile # last.body.profile

\* C35: in every reachable state the session holds neither user_id nor
\* username, or holds both, and then they are the user_id and username of
\* one and the same record, stored when the session was established.  The
\* session a client arrives with from before (StaleSession) holds both
\* fields of a record that is not in the collection any more.
C35_SessionPair ==
    \A c \in Clients :
        \/ session[c] = EmptySession
        \/ session[c] = StaleSession
        \/ /\ session[c].user_id # None
           /\ session[c].username # <<>>
           /\ \E d \in store : /\ d._id = session[c].user_id
                               /\ d.username = session[c].username

\* C35 witness: a login established a session that holds the user_id and
\* the username of the stored record it returned.
C35_Witness ==
    /\ last.op = "login"
    /\ last.status = 200
    /\ session[last.client].user_id = last.user.user_id
    /\ session[last.client].username = last.user.username
    /\ \E d \in store : /\ d._id = session[last.client].user_id
                        /\ d.username = session[last.client].username

====
